---- MODULE Spec2Model ----
(***************************************************************************)
(* Model of the Editor State of md-editor: the class MarkdownEditor, which *)
(* exists in two variants in the repository,                               *)
(*   "core": src/MarkdownEditor.js                                         *)
(*   "app" : the class bundled in src/app.js (lines 174-468).              *)
(* A text is a sequence of UTF-16 code units.  The two callbacks           *)
(* (onTextChange, onDirectionChange) are observed through `events`, the    *)
(* notifications delivered during the most recent call, in order; `ret` is  *)
(* the value the most recent call returned.  `last`, `pinned` and          *)
(* `written` record the history: the most recent call, the direction       *)
(* chosen by the last toggle, and the text most recently handed to the     *)
(* editor.                                                                 *)
(***************************************************************************)
EXTENDS Integers, Sequences, FiniteSets, TLC

VARIABLES variant, defaultDirection, text, direction, autoDetectRTL,
          manualDirection, events, last, pinned, ret, written

vars == <<variant, defaultDirection, text, direction, autoDetectRTL,
          manualDirection, events, last, pinned, ret, written>>

\* ---------------------------------------------------------------- bounds
MaxLen == 2

\* code units the texts are built from: space, 'h', HEBREW LETTER ALEF
\* (U+05D0) and U+FEFF (inside the last RTL range, and white space for trim)
Alphabet == {32, 104, 1488, 65279}

Texts == UNION {[1..n -> Alphabet] : n \in 0..MaxLen}

NULL == "null"
Directions == {"ltr", "rtl"}
Variants == {"core", "app"}

\* ------------------------------------------------------- pure functions
\* the character class of containsRTL with the bounds of the ranges left out
IsRTLCharOpen(c) ==
    \/ (c > 1424 /\ c < 1535)
    \/ (c > 1536 /\ c < 1791)
    \/ (c > 1872 /\ c < 1919)
    \/ (c > 2208 /\ c < 2303)
    \/ (c > 64336 /\ c < 65023)
    \/ (c > 65136 /\ c < 65279)

\* one code unit of the character class of containsRTL
IsRTLChar(c) ==
    \/ (c >= 1424 /\ c <= 1535)      \* U+0590-U+05FF
    \/ (c >= 1536 /\ c <= 1791)      \* U+0600-U+06FF
    \/ (c >= 1872 /\ c <= 1919)      \* U+0750-U+077F
    \/ (c >= 2208 /\ c <= 2303)      \* U+08A0-U+08FF
    \/ (c >= 64336 /\ c <= 65023)    \* U+FB50-U+FDFF
    \/ (c >= 65136 /\ c <= 65279)    \* U+FE70-U+FEFF

\* containsRTL demanding that every character is of the class
containsRTLAllChars(t) == \A i \in 1..Len(t) : IsRTLChar(t[i])

\* rtlChars.test(text): an unanchored search for one character of the class
containsRTL(t) == \E i \in 1..Len(t) : IsRTLChar(t[i])

\* the code units String.prototype.trim removes (WhiteSpace + LineTerminator)
IsWhiteSpace(c) ==
    \/ c \in {9, 10, 11, 12, 13, 32, 160, 5760, 8232, 8233, 8239, 8287,
              12288, 65279}
    \/ (c >= 8192 /\ c <= 8202)

\* !(this.text && this.text.trim()): the text is empty or white space only
IsBlank(t) == \A i \in 1..Len(t) : IsWhiteSpace(t[i])

\* isRTL with the text consulted before the manual override
isRTLTextFirst(v, t, dir, auto, man) ==
    IF ~IsBlank(t) THEN containsRTL(t)
    ELSE IF man # NULL THEN man = "rtl" ELSE dir = "rtl"

\* the value of isRTL computed by updateDirection
isRTL(v, t, dir, auto, man) ==
    IF auto /\ man = NULL
      THEN IF v = "app"
             THEN IF ~IsBlank(t) THEN containsRTL(t) ELSE dir = "rtl"
             ELSE containsRTL(t)
      ELSE IF man # NULL
             THEN man = "rtl"
             ELSE IF v = "app" THEN dir = "rtl" ELSE FALSE

\* newDirection of updateDirection
newDirection(v, t, dir, auto, man) ==
    IF isRTL(v, t, dir, auto, man) THEN "rtl" ELSE "ltr"

\* ----------------------------------------------------- string helpers
\* the literal lit occurs in s at index i
StartsAt(s, i, lit) ==
    /\ i >= 1
    /\ i + Len(lit) - 1 <= Len(s)
    /\ \A k \in 1..Len(lit) : s[i + k - 1] = lit[k]

\* the least index j >= i with s[j] = c, or 0 when there is none
IndexOf(s, c, i) ==
    LET S == {j \in i..Len(s) : s[j] = c}
    IN IF S = {} THEN 0 ELSE CHOOSE j \in S : \A k \in S : j <= k

\* LineTerminator of the regular expression grammar: LF, CR, LS, PS
IsLineTerminator(c) == c \in {10, 13, 8232, 8233}

\* ^ under the m flag: i is the start of the input or follows a line terminator
AtLineStart(s, i) == i = 1 \/ IsLineTerminator(s[i - 1])

\* the index after the last character of the line that holds index i, i.e.
\* where a greedy .* followed by $ (m flag) started at i stops
LineEnd(s, i) ==
    LET S == {j \in i..Len(s) : IsLineTerminator(s[j])}
    IN IF S = {} THEN Len(s) + 1 ELSE CHOOSE j \in S : \A k \in S : j <= k

\* the element of a one-element set; {F(x) : x \in {e}} has e evaluated once
Only(S) == CHOOSE r \in S : TRUE

\* no match of a pattern at an index
NoMatch == <<0, <<>>>>

\* ------------------------------------------------------- parseMarkdown
\* /!\[([^\]]*)\]\(([^)]+)\)/ at index i,
\* replaced by '___IMAGE___$2___ALT___$1___IMAGEEND___'
MatchImage(s, i) ==
    IF ~StartsAt(s, i, <<33, 91>>) THEN NoMatch
    ELSE LET j == IndexOf(s, 93, i + 2)
         IN IF j = 0 \/ ~StartsAt(s, j, <<93, 40>>) THEN NoMatch
            ELSE LET k == IndexOf(s, 41, j + 2)
                 IN IF k = 0 \/ k = j + 2 THEN NoMatch
                    ELSE <<k + 1, <<95, 95, 95, 73, 77, 65, 71, 69, 95, 95, 95>> \o SubSeq(s, j + 2, k - 1)
                                  \o <<95, 95, 95, 65, 76, 84, 95, 95, 95>> \o SubSeq(s, i + 2, j - 1)
                                  \o <<95, 95, 95, 73, 77, 65, 71, 69, 69, 78, 68, 95, 95, 95>>>>

\* /\[([^\]]+)\]\(([^)]+)\)/ at index i,
\* replaced by '___LINK___$2___TEXT___$1___LINKEND___'
MatchLink(s, i) ==
    IF ~StartsAt(s, i, <<91>>) THEN NoMatch
    ELSE LET j == IndexOf(s, 93, i + 1)
         IN IF j = 0 \/ j = i + 1 \/ ~StartsAt(s, j, <<93, 40>>) THEN NoMatch
            ELSE LET k == IndexOf(s, 41, j + 2)
                 IN IF k = 0 \/ k = j + 2 THEN NoMatch
                    ELSE <<k + 1, <<95, 95, 95, 76, 73, 78, 75, 95, 95, 95>> \o SubSeq(s, j + 2, k - 1)
                                  \o <<95, 95, 95, 84, 69, 88, 84, 95, 95, 95>> \o SubSeq(s, i + 1, j - 1)
                                  \o <<95, 95, 95, 76, 73, 78, 75, 69, 78, 68, 95, 95, 95>>>>

\* /___IMAGE___([^_]+)___ALT___([^_]*)___IMAGEEND___/ at index i,
\* replaced by '<img src="$1" alt="$2">'
MatchImageRestore(s, i) ==
    IF ~StartsAt(s, i, <<95, 95, 95, 73, 77, 65, 71, 69, 95, 95, 95>>) THEN NoMatch
    ELSE LET a == i + 11
             j == IndexOf(s, 95, a)
         IN IF j = 0 \/ j = a \/ ~StartsAt(s, j, <<95, 95, 95, 65, 76, 84, 95, 95, 95>>) THEN NoMatch
            ELSE LET b == j + 9
                     k == IndexOf(s, 95, b)
                 IN IF k = 0 \/ ~StartsAt(s, k, <<95, 95, 95, 73, 77, 65, 71, 69, 69, 78, 68, 95, 95, 95>>) THEN NoMatch
                    ELSE <<k + 14,
                           <<60, 105, 109, 103, 32, 115, 114, 99, 61, 34>> \o SubSeq(s, a, j - 1)
                             \o <<34, 32, 97, 108, 116, 61, 34>> \o SubSeq(s, b, k - 1) \o <<34, 62>>>>

\* /___LINK___([^_]+)___TEXT___([^_]+)___LINKEND___/ at index i,
\* replaced by '<a href="$1" target="_blank">$2</a>'
MatchLinkRestore(s, i) ==
    IF ~StartsAt(s, i, <<95, 95, 95, 76, 73, 78, 75, 95, 95, 95>>) THEN NoMatch
    ELSE LET a == i + 10
             j == IndexOf(s, 95, a)
         IN IF j = 0 \/ j = a \/ ~StartsAt(s, j, <<95, 95, 95, 84, 69, 88, 84, 95, 95, 95>>) THEN NoMatch
            ELSE LET b == j + 10
                     k == IndexOf(s, 95, b)
                 IN IF k = 0 \/ k = b \/ ~StartsAt(s, k, <<95, 95, 95, 76, 73, 78, 75, 69, 78, 68, 95, 95, 95>>) THEN NoMatch
                    ELSE <<k + 13,
                           <<60, 97, 32, 104, 114, 101, 102, 61, 34>> \o SubSeq(s, a, j - 1)
                             \o <<34, 32, 116, 97, 114, 103, 101, 116, 61, 34, 95, 98, 108, 97, 110, 107, 34, 62>> \o SubSeq(s, b, k - 1)
                             \o <<60, 47, 97, 62>>>>

\* /^PREFIX(.*$)/gim at index i, replaced by OPEN $1 CLOSE (headers, blockquote)
MatchLinePrefix(s, i, prefix, open, close) ==
    IF AtLineStart(s, i) /\ StartsAt(s, i, prefix)
      THEN LET e == LineEnd(s, i + Len(prefix))
           IN <<e, open \o SubSeq(s, i + Len(prefix), e - 1) \o close>>
      ELSE NoMatch

\* n times the character '#'
Hashes(n) == [k \in 1..n |-> 35]

\* /DELIM(.+?)DELIM/ at index i, replaced by OPEN $1 CLOSE: the shortest
\* non-empty run without line terminator that is followed by the delimiter
MatchDelimited(s, i, delim, open, close) ==
    IF ~StartsAt(s, i, delim) THEN NoMatch
    ELSE LET a == i + Len(delim)
             e == LineEnd(s, a)
             S == {j \in (a + 1)..(e - 1) : StartsAt(s, j, delim)}
         IN IF S = {} THEN NoMatch
            ELSE LET j == CHOOSE x \in S : \A y \in S : x <= y
                 IN <<j + Len(delim), open \o SubSeq(s, a, j - 1) \o close>>

\* /FENCE([^`]+)FENCE/ at index i, replaced by OPEN $1 CLOSE
MatchCode(s, i, fence, open, close) ==
    IF ~StartsAt(s, i, fence) THEN NoMatch
    ELSE LET a == i + Len(fence)
             j == IndexOf(s, 96, a)
         IN IF j = 0 \/ j = a \/ ~StartsAt(s, j, fence) THEN NoMatch
            ELSE <<j + Len(fence), open \o SubSeq(s, a, j - 1) \o close>>

\* /^LIT$/gim at index i, replaced by '<hr>'
MatchRule(s, i, lit) ==
    IF AtLineStart(s, i) /\ StartsAt(s, i, lit) /\ LineEnd(s, i) = i + Len(lit)
      THEN <<i + Len(lit), <<60, 104, 114, 62>>>>
      ELSE NoMatch

\* text.split('\n'): the pieces between the line feeds, nl(k) being the
\* index of the k-th line feed
Split(str) ==
    Only({LET P == {j \in 1..Len(s) : s[j] = 10}
              nl(k) == CHOOSE p \in P : Cardinality({q \in P : q < p}) = k - 1
          IN [k \in 1..(Cardinality(P) + 1) |->
                SubSeq(s, IF k = 1 THEN 1 ELSE nl(k - 1) + 1,
                          IF k = Cardinality(P) + 1 THEN Len(s) ELSE nl(k) - 1)]
          : s \in {str}})

\* result.join('') in the place of result.join('\n')
JoinTight(result) ==
    Only({LET join[lo \in 1..Len(lines), hi \in 1..Len(lines)] ==
                IF lo = hi THEN lines[lo]
                ELSE join[lo, (lo + hi) \div 2] \o join[((lo + hi) \div 2) + 1, hi]
          IN IF lines = <<>> THEN <<>> ELSE join[1, Len(lines)] : lines \in {result}})

\* result.join('\n')
Join(result) ==
    Only({LET join[lo \in 1..Len(lines), hi \in 1..Len(lines)] ==
                IF lo = hi THEN lines[lo]
                ELSE join[lo, (lo + hi) \div 2] \o <<10>> \o join[((lo + hi) \div 2) + 1, hi]
          IN IF lines = <<>> THEN <<>> ELSE join[1, Len(lines)] : lines \in {result}})

\* line.match(/^[\*\-\+] /)
IsUnorderedItem(line) ==
    Len(line) >= 2 /\ line[1] \in {42, 45, 43} /\ line[2] = 32

\* the number of leading decimal digits of a line
LeadingDigits(line) ==
    LET S == {j \in 1..Len(line) : line[j] < 48 \/ line[j] > 57}
    IN IF S = {} THEN Len(line) ELSE (CHOOSE j \in S : \A k \in S : j <= k) - 1

\* line.match(/^\d+\. /)
IsOrderedItem(line) ==
    LET d == LeadingDigits(line)
    IN d >= 1 /\ StartsAt(line, d + 1, <<46, 32>>)

\* '<li>' + line.replace(/^[\*\-\+] /, '') + '</li>'
UnorderedLi(line) == <<60, 108, 105, 62>> \o SubSeq(line, 3, Len(line)) \o <<60, 47, 108, 105, 62>>

\* '<li>' + line.replace(/^\d+\. /, '') + '</li>'
OrderedLi(line) ==
    <<60, 108, 105, 62>> \o SubSeq(line, LeadingDigits(line) + 3, Len(line)) \o <<60, 47, 108, 105, 62>>

\* the iteration with a line that is no item pushing no closing tag
ListLineNoClose(line, inList, inOrderedList) ==
    IF IsUnorderedItem(line)
      THEN <<TRUE, inOrderedList,
             (IF ~inList THEN <<<<60, 117, 108, 62>>>> ELSE <<>>) \o <<UnorderedLi(line)>>>>
    ELSE IF IsOrderedItem(line)
      THEN <<inList, TRUE,
             (IF ~inOrderedList THEN <<<<60, 111, 108, 62>>>> ELSE <<>>) \o <<OrderedLi(line)>>>>
    ELSE <<FALSE, FALSE, <<line>>>>

\* one iteration of the loop over the lines: <<inList, inOrderedList, pushed>>
\* after the iteration, pushed being the lines it pushes on result
ListLine(line, inList, inOrderedList) ==
    IF IsUnorderedItem(line)
      THEN <<TRUE, inOrderedList,
             (IF ~inList THEN <<<<60, 117, 108, 62>>>> ELSE <<>>) \o <<UnorderedLi(line)>>>>
    ELSE IF IsOrderedItem(line)
      THEN <<inList, TRUE,
             (IF ~inOrderedList THEN <<<<60, 111, 108, 62>>>> ELSE <<>>) \o <<OrderedLi(line)>>>>
    ELSE <<FALSE, FALSE,
           (IF inList THEN <<<<60, 47, 117, 108, 62>>>> ELSE <<>>)
           \o (IF inOrderedList THEN <<<<60, 47, 111, 108, 62>>>> ELSE <<>>)
           \o <<line>>>>

\* the loop over the lines and the closing of the lists still open: the
\* value of result; loop[lo, hi, inList, inOrderedList] is the effect of the
\* iterations lo..hi started with the two flags
ListScan(split) ==
    Only({LET loop[lo \in 1..Len(lines), hi \in 1..Len(lines),
                   inList \in BOOLEAN, inOrderedList \in BOOLEAN] ==
                IF lo = hi THEN ListLine(lines[lo], inList, inOrderedList)
                ELSE Only({Only({<<r[1], r[2], l[3] \o r[3]>>
                                 : r \in {loop[((lo + hi) \div 2) + 1, hi, l[1], l[2]]}})
                           : l \in {loop[lo, (lo + hi) \div 2, inList, inOrderedList]}})
          IN Only({done[3] \o (IF done[1] THEN <<<<60, 47, 117, 108, 62>>>> ELSE <<>>)
                           \o (IF done[2] THEN <<<<60, 47, 111, 108, 62>>>> ELSE <<>>)
                   : done \in {loop[1, Len(lines), FALSE, FALSE]}})
          : lines \in {split}})

\* Lists: split, scan, join
Lists(s) == Join(ListScan(Split(s)))

\* /<p>(<h[1-6]>)/ at index i, replaced by '$1'
MatchPBeforeHeader(s, i) ==
    IF /\ StartsAt(s, i, <<60, 112, 62, 60, 104>>)
       /\ i + 6 <= Len(s)
       /\ s[i + 5] >= 49 /\ s[i + 5] <= 54
       /\ s[i + 6] = 62
      THEN <<i + 7, SubSeq(s, i + 3, i + 6)>>
      ELSE NoMatch

\* /(<\/h[1-6]>)<\/p>/ at index i, replaced by '$1'
MatchPAfterHeader(s, i) ==
    IF /\ StartsAt(s, i, <<60, 47, 104>>)
       /\ i + 4 <= Len(s)
       /\ s[i + 3] >= 49 /\ s[i + 3] <= 54
       /\ StartsAt(s, i + 4, <<62, 60, 47, 112, 62>>)
      THEN <<i + 9, SubSeq(s, i, i + 4)>>
      ELSE NoMatch

\* ---------------------------------------------- patterns and statements
\* the pattern /lit/g with the replacement rep
Literal(lit, rep) == [kind |-> "literal", lit |-> lit, rep |-> rep]

\* the pattern /^PREFIX(.*$)/gim with the replacement OPEN $1 CLOSE
LinePrefix(prefix, open, close) ==
    [kind |-> "linePrefix", prefix |-> prefix, open |-> open, close |-> close]

\* the pattern /DELIM(.+?)DELIM/g with the replacement OPEN $1 CLOSE
Delimited(delim, open, close) ==
    [kind |-> "delimited", delim |-> delim, open |-> open, close |-> close]

\* the pattern /FENCE([^`]+)FENCE/g with the replacement OPEN $1 CLOSE
CodeSpan(fence, open, close) ==
    [kind |-> "code", fence |-> fence, open |-> open, close |-> close]

\* the pattern /^LIT$/gim with the replacement '<hr>'
Rule(lit) == [kind |-> "rule", lit |-> lit]

\* the match of the pattern p at index i of s: <<e, r>> when p matches
\* s[i..e-1], r being the expanded replacement, and NoMatch otherwise
Match(p, s, i) ==
    CASE p.kind = "literal" ->
           IF StartsAt(s, i, p.lit) THEN <<i + Len(p.lit), p.rep>> ELSE NoMatch
      [] p.kind = "image" -> MatchImage(s, i)
      [] p.kind = "link" -> MatchLink(s, i)
      [] p.kind = "imageRestore" -> MatchImageRestore(s, i)
      [] p.kind = "linkRestore" -> MatchLinkRestore(s, i)
      [] p.kind = "linePrefix" -> MatchLinePrefix(s, i, p.prefix, p.open, p.close)
      [] p.kind = "delimited" -> MatchDelimited(s, i, p.delim, p.open, p.close)
      [] p.kind = "code" -> MatchCode(s, i, p.fence, p.open, p.close)
      [] p.kind = "rule" -> MatchRule(s, i, p.lit)
      [] p.kind = "pBeforeHeader" -> MatchPBeforeHeader(s, i)
      [] p.kind = "pAfterHeader" -> MatchPAfterHeader(s, i)

\* str.replace(p, ...) for a pattern p with the g flag: the scan runs left
\* to right and resumes after each match. scan[lo, hi, at] is the scan of
\* s[lo..hi] entered at index at, as <<e, r>> with e the index at which the
\* scan leaves the range and r its output; the range is halved so that the
\* depth of the evaluation is logarithmic in Len(s).
ReplaceAll(str, p) ==
    Only({LET scan[lo \in 1..Len(s), hi \in 1..Len(s), at \in 1..(Len(s) + 1)] ==
                IF at > hi THEN <<at, <<>>>>
                ELSE IF lo = hi
                  THEN Only({IF m[1] > 0 THEN m ELSE <<lo + 1, <<s[lo]>>>>
                             : m \in {Match(p, s, lo)}})
                ELSE Only({Only({<<r[1], l[2] \o r[2]>>
                                 : r \in {scan[((lo + hi) \div 2) + 1, hi, l[1]]}})
                           : l \in {scan[lo, (lo + hi) \div 2, at]}})
          IN IF s = <<>> THEN <<>> ELSE scan[1, Len(s), 1][2] : s \in {str}})

\* the replace statements lo..hi of the sequence statements applied to str
\* one after the other; the sequence is halved like the scan of ReplaceAll
RECURSIVE ReplaceEach(_, _, _, _)
ReplaceEach(str, statements, lo, hi) ==
    IF lo > hi THEN str
    ELSE IF lo = hi THEN ReplaceAll(str, statements[lo])
    ELSE Only({ReplaceEach(t, statements, ((lo + hi) \div 2) + 1, hi)
               : t \in {ReplaceEach(str, statements, lo, (lo + hi) \div 2)}})

\* Images and Links: the placeholders
Placeholders == <<[kind |-> "image"], [kind |-> "link"]>>

\* the escape statements with the ampersand replaced last
EscapeHtmlAmpLast ==
    <<Literal(<<60>>, <<38, 108, 116, 59>>), Literal(<<62>>, <<38, 103, 116, 59>>), Literal(<<38>>, <<38, 97, 109, 112, 59>>)>>

\* Escape HTML: .replace(/&/g, '&amp;').replace(/</g, '&lt;').replace(/>/g, '&gt;')
EscapeHtml ==
    <<Literal(<<38>>, <<38, 97, 109, 112, 59>>), Literal(<<60>>, <<38, 108, 116, 59>>), Literal(<<62>>, <<38, 103, 116, 59>>)>>

\* Restore images and links with proper HTML
Restore == <<[kind |-> "imageRestore"], [kind |-> "linkRestore"]>>

\* the heading pattern of level n with the tags of level 1
HeaderLevelOne(n) ==
    LinePrefix(Hashes(n) \o <<32>>, <<60, 104, 49, 62>>, <<60, 47, 104, 49, 62>>)

\* /^#{n} (.*$)/gim with the replacement '<hn>$1</hn>'
Header(n) ==
    LinePrefix(Hashes(n) \o <<32>>,
               <<60, 104, 48 + n, 62>>, <<60, 47, 104, 48 + n, 62>>)

\* Headers, ###### first
Headers == <<Header(6), Header(5), Header(4), Header(3), Header(2), Header(1)>>

\* Bold: /\*\*(.+?)\*\*/g and /__(.+?)__/g
Bold ==
    <<Delimited(<<42, 42>>, <<60, 115, 116, 114, 111, 110, 103, 62>>, <<60, 47, 115, 116, 114, 111, 110, 103, 62>>),
      Delimited(<<95, 95>>, <<60, 115, 116, 114, 111, 110, 103, 62>>, <<60, 47, 115, 116, 114, 111, 110, 103, 62>>)>>

\* Italic: /\*(.+?)\*/g and /_(.+?)_/g
Italic ==
    <<Delimited(<<42>>, <<60, 101, 109, 62>>, <<60, 47, 101, 109, 62>>), Delimited(<<95>>, <<60, 101, 109, 62>>, <<60, 47, 101, 109, 62>>)>>

\* Strikethrough: /~~(.+?)~~/g
Strikethrough == <<Delimited(<<126, 126>>, <<60, 100, 101, 108, 62>>, <<60, 47, 100, 101, 108, 62>>)>>

\* Code blocks /```([^`]+)```/g, then Inline code /`([^`]+)`/g
Code ==
    <<CodeSpan(<<96, 96, 96>>, <<60, 112, 114, 101, 62, 60, 99, 111, 100, 101, 62>>, <<60, 47, 99, 111, 100, 101, 62, 60, 47, 112, 114, 101, 62>>),
      CodeSpan(<<96>>, <<60, 99, 111, 100, 101, 62>>, <<60, 47, 99, 111, 100, 101, 62>>)>>

\* Blockquotes: /^&gt; (.*$)/gim
Blockquotes == <<LinePrefix(<<38, 103, 116, 59, 32>>, <<60, 98, 108, 111, 99, 107, 113, 117, 111, 116, 101, 62>>, <<60, 47, 98, 108, 111, 99, 107, 113, 117, 111, 116, 101, 62>>)>>

\* Horizontal rules: /^---$/gim and /^\*\*\*$/gim
HorizontalRules == <<Rule(<<45, 45, 45>>), Rule(<<42, 42, 42>>)>>

\* the replace statements that precede the lists, in their order
Inline ==
    Placeholders \o EscapeHtml \o Restore \o Headers \o Bold \o Italic
    \o Strikethrough \o Code \o Blockquotes \o HorizontalRules

\* the paragraph breaks without the enclosing <p> and </p>
ParagraphsBare(s) == ReplaceAll(s, Literal(<<10, 10>>, <<60, 47, 112, 62, 60, 112, 62>>))

\* Paragraphs: text.replace(/\n\n/g, '</p><p>'); text = '<p>' + text + '</p>'
Paragraphs(s) ==
    <<60, 112, 62>> \o ReplaceAll(s, Literal(<<10, 10>>, <<60, 47, 112, 62, 60, 112, 62>>)) \o <<60, 47, 112, 62>>

\* /<p>(TAG)/g and /(CLOSE)<\/p>/g, each with the replacement '$1'
Unwrap(tag, close) ==
    <<Literal(<<60, 112, 62>> \o tag, tag), Literal(close \o <<60, 47, 112, 62>>, close)>>

\* Clean up empty paragraphs: the twelve replace statements in their order
CleanUp ==
    <<Literal(<<60, 112, 62, 60, 47, 112, 62>>, <<>>), [kind |-> "pBeforeHeader"], [kind |-> "pAfterHeader"]>>
    \o Unwrap(<<60, 117, 108, 62>>, <<60, 47, 117, 108, 62>>) \o Unwrap(<<60, 111, 108, 62>>, <<60, 47, 111, 108, 62>>)
    \o Unwrap(<<60, 98, 108, 111, 99, 107, 113, 117, 111, 116, 101, 62>>, <<60, 47, 98, 108, 111, 99, 107, 113, 117, 111, 116, 101, 62>>) \o Unwrap(<<60, 112, 114, 101, 62>>, <<60, 47, 112, 114, 101, 62>>)
    \o <<Literal(<<60, 112, 62, 60, 104, 114, 62, 60, 47, 112, 62>>, <<60, 104, 114, 62>>)>>

\* parseMarkdown(text): the statements of the function in their order
parseMarkdown(markdown) ==
    ReplaceEach(Paragraphs(Lists(ReplaceEach(markdown, Inline, 1, Len(Inline)))),
                CleanUp, 1, Len(CleanUp))

\* the html of the texts of Texts, each computed once
Rendered == {<<t, parseMarkdown(t)>> : t \in Texts}

\* this.parseMarkdown(t), read from Rendered where t is one of Texts
render(t) ==
    IF t \in Texts THEN (CHOOSE p \in Rendered : p[1] = t)[2] ELSE parseMarkdown(t)

\* ------------------------------------------------------- notifications
\* this.onDirectionChange(d)
DirectionEvent(d) ==
    [kind |-> "direction-changed", direction |-> d, text |-> <<>>, html |-> <<>>]

\* this.onTextChange(t, h)
TextEvent(t, h) ==
    [kind |-> "text-changed", direction |-> NULL, text |-> t, html |-> h]

\* updateDirection reporting a change of the text with a change of direction
updateDirectionEventsWithText(old, new) ==
    IF new # old THEN <<DirectionEvent(new), TextEvent(<<>>, <<>>)>> ELSE <<>>

\* updateDirection notifying without comparing with the stored direction
updateDirectionEventsAlways(old, new) == <<DirectionEvent(new)>>

\* the calls of onDirectionChange made by updateDirection
updateDirectionEvents(old, new) ==
    IF new # old THEN <<DirectionEvent(new)>> ELSE <<>>

\* setText notifying the text before it recomputes the direction
setTextEventsTextFirst(old, new, t, h) ==
    <<TextEvent(t, h)>> \o updateDirectionEvents(old, new)

\* the notifications of one setText call, in the order of delivery
setTextEvents(old, new, t, h) ==
    updateDirectionEvents(old, new) \o <<TextEvent(t, h)>>

\* toggleDirection pinning the current direction instead of its opposite
toggleManualSame(dir) == dir

\* manualDirection as set by toggleDirection
toggleManual(dir) == IF dir = "rtl" THEN "ltr" ELSE "rtl"

\* toggleDirection leaving auto-detect on
toggleAutoDetectKept == TRUE

\* autoDetectRTL as set by toggleDirection
toggleAutoDetect == FALSE

\* setAutoDetectRTL clearing the manual override when it disables auto-detect
setAutoDetectManualSwapped(enabled, man) == IF enabled THEN man ELSE NULL

\* setAutoDetectRTL keeping the manual override
setAutoDetectManualKept(enabled, man) == man

\* manualDirection after setAutoDetectRTL(enabled)
setAutoDetectManual(enabled, man) == IF enabled THEN NULL ELSE man

\* this.direction as set by the constructor
constructorDirection(v, dd) ==
    IF v = "app" THEN (IF dd # NULL THEN dd ELSE "rtl") ELSE "ltr"

\* the initial onDirectionChange call of the constructor
constructorEvents(v, dir) ==
    IF v = "app" THEN <<DirectionEvent(dir)>> ELSE <<>>

Before == [direction |-> direction, manualDirection |-> manualDirection,
           autoDetectRTL |-> autoDetectRTL, text |-> text]

Call(op, enabled) ==
    [op |-> op, enabled |-> enabled, before |-> Before, args |-> NULL]

getDirection == direction
getText == text

\* getHTML() returning the html of the text as it was before the last call
getHTMLBefore == render(last.before.text)

\* getHTML(): this.parseMarkdown(this.text)
getHTML == render(text)

\* ------------------------------------------------------- insertMarkdown
\* the case labels of the switch of insertMarkdown
Actions == {"h1", "h2", "h3", "bold", "italic", "strikethrough", "ul", "ol",
            "quote", "link", "image", "code"}

\* the actions insertMarkdown is called with: the case labels and one
\* action the switch has no case for
ActionInputs == Actions \cup {"table"}

\* the selected texts insertMarkdown is called with
MaxSel == 1
SelAlphabet == {104, 1488}
Selections == UNION {[1..n -> SelAlphabet] : n \in 0..MaxSel}

\* the part of the template literal before ${selectedText}
Opening(action) ==
    CASE action = "h1" -> <<35, 32>>                                 \* '# '
      [] action = "h2" -> <<35, 35, 32>>                             \* '## '
      [] action = "h3" -> <<35, 35, 35, 32>>                         \* '### '
      [] action = "bold" -> <<42, 42>>                               \* '**'
      [] action = "italic" -> <<42>>                                 \* '*'
      [] action = "strikethrough" -> <<126, 126>>                    \* '~~'
      [] action = "ul" -> <<45, 32>>                                 \* '- '
      [] action = "ol" -> <<49, 46, 32>>                             \* '1. '
      [] action = "quote" -> <<62, 32>>                              \* '> '
      [] action = "link" -> <<91>>                                   \* '['
      [] action = "image" -> <<33, 91>>                              \* '!['
      [] action = "code" -> <<96>>                                   \* '`'

\* the part of the template literal after ${selectedText}
Closing(action) ==
    CASE action = "h1" -> <<>>                                       \* ''
      [] action = "h2" -> <<>>                                       \* ''
      [] action = "h3" -> <<>>                                       \* ''
      [] action = "bold" -> <<42, 42>>                               \* '**'
      [] action = "italic" -> <<42>>                                 \* '*'
      [] action = "strikethrough" -> <<126, 126>>                    \* '~~'
      [] action = "ul" -> <<>>                                       \* ''
      [] action = "ol" -> <<>>                                       \* ''
      [] action = "quote" -> <<>>                                    \* ''
      [] action = "link" -> <<93, 40, 117, 114, 108, 41>>            \* '](url)'
      [] action = "image" -> <<93, 40, 105, 109, 97, 103, 101, 45, 117, 114, 108, 41>> \* '](image-url)'
      [] action = "code" -> <<96>>                                   \* '`'

\* insertMarkdown without the descriptive words
PlaceholderNone(action) == <<>>

\* the descriptive words src/MarkdownEditor.js puts in place of an empty
\* selection (selectedText || '...')
Placeholder(action) ==
    CASE action = "h1" -> <<72, 101, 97, 100, 105, 110, 103, 32, 49>> \* 'Heading 1'
      [] action = "h2" -> <<72, 101, 97, 100, 105, 110, 103, 32, 50>> \* 'Heading 2'
      [] action = "h3" -> <<72, 101, 97, 100, 105, 110, 103, 32, 51>> \* 'Heading 3'
      [] action = "bold" -> <<98, 111, 108, 100, 32, 116, 101, 120, 116>> \* 'bold text'
      [] action = "italic" -> <<105, 116, 97, 108, 105, 99, 32, 116, 101, 120, 116>> \* 'italic text'
      [] action = "strikethrough" -> <<115, 116, 114, 105, 107, 101, 116, 104, 114, 111, 117, 103, 104>> \* 'strikethrough'
      [] action = "ul" -> <<108, 105, 115, 116, 32, 105, 116, 101, 109>> \* 'list item'
      [] action = "ol" -> <<108, 105, 115, 116, 32, 105, 116, 101, 109>> \* 'list item'
      [] action = "quote" -> <<113, 117, 111, 116, 101>>             \* 'quote'
      [] action = "link" -> <<108, 105, 110, 107, 32, 116, 101, 120, 116>> \* 'link text'
      [] action = "image" -> <<97, 108, 116, 32, 116, 101, 120, 116>> \* 'alt text'
      [] action = "code" -> <<99, 111, 100, 101>>                    \* 'code'

\* insertMarkdown echoing the selection for an action without a case
newTextEchoed(v, action, selectedText) ==
    IF action \notin Actions THEN selectedText
    ELSE Opening(action)
         \o (IF selectedText # <<>> THEN selectedText
             ELSE IF v = "core" THEN Placeholder(action) ELSE <<>>)
         \o Closing(action)

\* newText of insertMarkdown: '' when no case matches; an empty selection is
\* replaced by the descriptive words in src/MarkdownEditor.js and by nothing
\* in src/app.js
newText(v, action, selectedText) ==
    IF action \notin Actions THEN <<>>
    ELSE Opening(action)
         \o (IF selectedText # <<>> THEN selectedText
             ELSE IF v = "core" THEN Placeholder(action) ELSE <<>>)
         \o Closing(action)

\* the caret put at the end of the snippet of src/MarkdownEditor.js
EmptyOffsetAtEnd(action) ==
    Len(Opening(action) \o Placeholder(action) \o Closing(action))

\* cursorOffset of the branch taken for an empty selection
EmptyOffset(action) ==
    CASE action = "h1" -> 2
      [] action = "h2" -> 3
      [] action = "h3" -> 4
      [] action = "bold" -> 2
      [] action = "italic" -> 1
      [] action = "strikethrough" -> 2
      [] action = "ul" -> 2
      [] action = "ol" -> 3
      [] action = "quote" -> 2
      [] action = "link" -> 1
      [] action = "image" -> 2
      [] action = "code" -> 1

\* the caret put at the end of the snippet for every action
SelectedOffsetEnd(action, length) == length

\* cursorOffset of the branch taken for a non-empty selection, length being
\* newText.length
SelectedOffset(action, length) ==
    CASE action = "link" -> length - 4
      [] action = "image" -> length - 11
      [] OTHER -> length

\* the actions for which src/app.js always returns newText.length
LineActions == {"h1", "h2", "h3", "ul", "ol", "quote"}

\* cursorOffset of insertMarkdown: 0 when no case matches
cursorOffset(v, action, selectedText) ==
    IF action \notin Actions THEN 0
    ELSE IF v = "app" /\ action \in LineActions
      THEN Len(newText(v, action, selectedText))
    ELSE IF selectedText # <<>>
      THEN SelectedOffset(action, Len(newText(v, action, selectedText)))
    ELSE EmptyOffset(action)

\* return { newText, cursorOffset }
insertMarkdownResult(v, action, selectedText) ==
    [newText |-> newText(v, action, selectedText),
     cursorOffset |-> cursorOffset(v, action, selectedText)]

\* insertMarkdown splicing the snippet into the text at position 0
insertMarkdownTextSpliced(t, result) == result.newText \o t

\* this.text after insertMarkdown: the method assigns nothing and leaves the
\* splicing to its caller
insertMarkdownText(t, result) == t

\* ------------------------------------------------------------------ clear
\* clear() notifying the text it removes
clearEventsOfText == <<TextEvent(text, getHTML)>>

\* this.onTextChange('', '')
clearEvents == <<TextEvent(<<>>, <<>>)>>

\* clear() putting the direction back to the one of the constructor
clearDirectionReset(v, dd, dir) == constructorDirection(v, dd)

\* this.direction after clear(): the method does not assign it
clearDirection(v, dd, dir) == dir

\* ------------------------------------------------- inputs of pure functions
\* code units around the bounds of the six ranges of containsRTL, and 'A'
DetectAlphabet ==
    {65, 1423, 1424, 1535, 1536, 1791, 1792, 1871, 1872, 1919, 1920, 2207,
     2208, 2303, 2304, 64335, 64336, 65023, 65024, 65135, 65136, 65279, 65280}

MaxDetectLen == 2
DetectInputs == UNION {[1..n -> DetectAlphabet] : n \in 0..MaxDetectLen}

\* texts of '&', '<', '>', space, line feed and 'a'
MaxPlain == 3
PlainAlphabet == {38, 60, 62, 32, 10, 97}
Plain == UNION {[1..n -> PlainAlphabet] : n \in 0..MaxPlain}

\* link texts, alternative texts and destinations of '&', '<' and '>'
MaxPart == 1
PartAlphabet == {38, 60, 62}
Parts == UNION {[1..n -> PartAlphabet] : n \in 0..MaxPart}

\* nothing, or one of '&', '<', '>', next to a link or an image
Around == {<<>>, <<38>>, <<60>>, <<62>>}

\* a link [x](y) or an image ![x](y) between two elements of Around
Linked ==
    {p \o open \o <<91>> \o x \o <<93, 40>> \o y \o <<41>> \o q :
       p \in Around, q \in Around, open \in {<<>>, <<33>>}, x \in Parts, y \in Parts}

\* heading lines: n times '#', one space, and a content of 'a', '&' and space
MaxContent == 2
Levels == 1..6
Contents == UNION {[1..n -> {97, 38, 32}] : n \in 0..MaxContent}
Headed == {Hashes(n) \o <<32>> \o x : n \in Levels, x \in Contents}

\* lines that are exactly '---' or '***', alone, after a line and before one
RuleLines == {<<45, 45, 45>>, <<42, 42, 42>>}
Ruled ==
    {p \o r \o q : p \in {<<>>, <<97, 10>>}, r \in RuleLines, q \in {<<>>, <<10, 97>>}}

\* link texts, alternative texts and destinations with and without '_':
\* 'a', 'a_b' and '_'
Values == {<<97>>, <<97, 95, 98>>, <<95>>}

\* a link [x](y) or an image ![x](y) of two elements of Values
Underscored ==
    {open \o <<91>> \o x \o <<93, 40>> \o y \o <<41>> :
       open \in {<<>>, <<33>>}, x \in Values, y \in Values}

\* the lines '- a', '- b', '1. b', the empty line and 'c'
ListLines ==
    {<<45, 32, 97>>, <<45, 32, 98>>, <<49, 46, 32, 98>>, <<>>, <<99>>}

\* the text whose lines are ls
Text(ls) ==
    LET t[k \in 1..Len(ls)] == IF k = 1 THEN ls[1] ELSE t[k - 1] \o <<10>> \o ls[k]
    IN t[Len(ls)]

\* texts of one to MaxLines lines of ListLines
MaxLines == 4
Listed == {Text(ls) : ls \in UNION {[1..n -> ListLines] : n \in 1..MaxLines}}

RenderInputs == Plain \cup Linked \cup Headed \cup Ruled \cup Underscored \cup Listed

\* ------------------------------------------------------------ the state
Init ==
    /\ variant \in Variants
    /\ defaultDirection \in Directions \cup {NULL}
    /\ text \in Texts
    /\ autoDetectRTL \in BOOLEAN
    /\ direction = constructorDirection(variant, defaultDirection)
    /\ manualDirection = NULL
    /\ events = constructorEvents(variant, direction)
    /\ last = [op |-> "constructor", enabled |-> autoDetectRTL,
               before |-> [direction |-> direction, manualDirection |-> NULL,
                           autoDetectRTL |-> autoDetectRTL, text |-> text],
               args |-> NULL]
    /\ pinned = NULL
    /\ ret = NULL
    /\ written = text

setText(t) ==
    /\ text' = t
    /\ direction' = newDirection(variant, t, direction, autoDetectRTL, manualDirection)
    /\ last' = Call("setText", FALSE)
    /\ events' = setTextEvents(direction, direction', t, getHTML')
    /\ ret' = NULL
    /\ written' = t
    /\ UNCHANGED <<variant, defaultDirection, autoDetectRTL, manualDirection, pinned>>

updateDirection ==
    /\ direction' = newDirection(variant, text, direction, autoDetectRTL, manualDirection)
    /\ events' = updateDirectionEvents(direction, direction')
    /\ last' = Call("updateDirection", FALSE)
    /\ ret' = NULL
    /\ UNCHANGED <<variant, defaultDirection, text, autoDetectRTL, manualDirection,
                   pinned, written>>

toggleDirection ==
    /\ manualDirection' = toggleManual(direction)
    /\ autoDetectRTL' = toggleAutoDetect
    /\ direction' = newDirection(variant, text, direction, autoDetectRTL', manualDirection')
    /\ events' = updateDirectionEvents(direction, direction')
    /\ last' = Call("toggleDirection", FALSE)
    /\ pinned' = manualDirection'
    /\ ret' = NULL
    /\ UNCHANGED <<variant, defaultDirection, text, written>>

setAutoDetectRTL(enabled) ==
    /\ autoDetectRTL' = enabled
    /\ manualDirection' = setAutoDetectManual(enabled, manualDirection)
    /\ direction' = IF enabled
                      THEN newDirection(variant, text, direction, autoDetectRTL', manualDirection')
                      ELSE direction
    /\ events' = IF enabled THEN updateDirectionEvents(direction, direction') ELSE <<>>
    /\ last' = Call("setAutoDetectRTL", enabled)
    /\ pinned' = IF enabled THEN NULL ELSE pinned
    /\ ret' = NULL
    /\ UNCHANGED <<variant, defaultDirection, text, written>>

clear ==
    /\ text' = <<>>
    /\ manualDirection' = NULL
    /\ direction' = clearDirection(variant, defaultDirection, direction)
    /\ events' = clearEvents
    /\ last' = Call("clear", FALSE)
    /\ pinned' = NULL
    /\ ret' = NULL
    /\ written' = <<>>
    /\ UNCHANGED <<variant, defaultDirection, autoDetectRTL>>

\* a call of getHTML()
getHTMLCall ==
    /\ ret' = getHTML
    /\ events' = <<>>
    /\ last' = Call("getHTML", FALSE)
    /\ UNCHANGED <<variant, defaultDirection, text, direction, autoDetectRTL,
                   manualDirection, pinned, written>>

\* a call of containsRTL(getText())
containsRTLCall ==
    /\ ret' = containsRTL(text)
    /\ events' = <<>>
    /\ last' = Call("containsRTL", FALSE)
    /\ UNCHANGED <<variant, defaultDirection, text, direction, autoDetectRTL,
                   manualDirection, pinned, written>>

insertMarkdown(action, selectedText) ==
    /\ ret' = insertMarkdownResult(variant, action, selectedText)
    /\ text' = insertMarkdownText(text, ret')
    /\ events' = <<>>
    /\ last' = [Call("insertMarkdown", FALSE) EXCEPT
                  !.args = [action |-> action, selectedText |-> selectedText]]
    /\ UNCHANGED <<variant, defaultDirection, direction, autoDetectRTL,
                   manualDirection, pinned, written>>

Next ==
    \/ \E t \in Texts : setText(t)
    \/ updateDirection
    \/ toggleDirection
    \/ \E enabled \in BOOLEAN : setAutoDetectRTL(enabled)
    \/ clear
    \/ getHTMLCall

Spec == Init /\ [][Next]_vars

\* new MarkdownEditor({initialText: t}) for a text t of inputs, in the
\* variants vs of the class
Constructed(vs, inputs) ==
    /\ variant \in vs
    /\ defaultDirection = NULL
    /\ text \in inputs
    /\ autoDetectRTL = TRUE
    /\ direction = constructorDirection(variant, defaultDirection)
    /\ manualDirection = NULL
    /\ events = constructorEvents(variant, direction)
    /\ last = [op |-> "constructor", enabled |-> autoDetectRTL,
               before |-> [direction |-> direction, manualDirection |-> NULL,
                           autoDetectRTL |-> autoDetectRTL, text |-> text],
               args |-> NULL]
    /\ pinned = NULL
    /\ ret = NULL
    /\ written = text

\* insertMarkdown applied to the actions of ActionInputs and the selections
\* of Selections, in the editor states reached by setText and
\* toggleDirection from an editor constructed with a text of Selections
InitInsert == Constructed(Variants, Selections)
NextInsert ==
    \/ \E t \in Selections : setText(t)
    \/ toggleDirection
    \/ \E action \in ActionInputs, selectedText \in Selections :
         insertMarkdown(action, selectedText)
InsertSpec == InitInsert /\ [][NextInsert]_vars

\* containsRTL applied to the texts of DetectInputs
InitDetect == Constructed(Variants, DetectInputs)
NextDetect == containsRTLCall
DetectSpec == InitDetect /\ [][NextDetect]_vars

\* parseMarkdown applied to the texts of RenderInputs; the function has the
\* same text in the two files, so one variant is constructed
InitRender == Constructed({"core"}, RenderInputs)
NextRender == getHTMLCall
RenderSpec == InitRender /\ [][NextRender]_vars

\* ------------------------------------------------------------ properties
\* the direction-changed notifications among evs, in order
DirectionEvents(evs) == SelectSeq(evs, LAMBDA e : e.kind = "direction-changed")

\* the last call was setAutoDetectRTL(true)
EnabledAutoDetect == last.op = "setAutoDetectRTL" /\ last.enabled

\* the last call started with auto-detect on and no manual override
BeforeAuto == last.before.autoDetectRTL /\ last.before.manualDirection = NULL

\* the last call started with auto-detect off and no manual override
BeforeDegenerate == ~last.before.autoDetectRTL /\ last.before.manualDirection = NULL

\* C1: after a toggleDirection(), every setText that follows with no
\* toggleDirection(), setAutoDetect(true) or clear() in between leaves
\* getDirection() equal to the direction that toggle chose.
C1_OverridePinned ==
    (pinned # NULL /\ last.op = "setText") => getDirection = pinned

\* a setText of non-blank text whose content disagrees with the pinned direction
C1_Witness ==
    /\ pinned # NULL
    /\ last.op = "setText"
    /\ ~IsBlank(text)
    /\ containsRTL(text) # (pinned = "rtl")

C3_TextThenDirection ==
    (last.op = "setText" /\ direction # last.before.direction)
      => \E i, j \in 1..Len(events) :
            /\ i < j
            /\ events[i].kind = "text-changed"
            /\ events[j].kind = "direction-changed"

\* C3 (amended): during a setText that changes the direction,
\* direction-changed(direction) is delivered first and text-changed(text, html)
\* after it.
C3_DirectionThenText ==
    (last.op = "setText" /\ direction # last.before.direction)
      => events = <<DirectionEvent(direction), TextEvent(text, getHTML)>>

\* a setText that changed the direction
C3_Witness ==
    /\ last.op = "setText"
    /\ direction # last.before.direction
    /\ Len(events) = 2

\* C4: a call of setText, toggleDirection or setAutoDetect fires
\* direction-changed exactly once, with the new direction, when the stored
\* direction differs from the one before the call, and not at all otherwise.
C4_DirectionChangedOnce ==
    last.op \in {"setText", "toggleDirection", "setAutoDetectRTL"}
      => DirectionEvents(events) =
           IF direction # last.before.direction
             THEN <<DirectionEvent(direction)>>
             ELSE <<>>

\* a setText of a different text that left the direction as it was
C4_Witness ==
    /\ last.op = "setText"
    /\ direction = last.before.direction
    /\ text # last.before.text
    /\ DirectionEvents(events) = <<>>

\* C5: with auto-detect on and no override, setText of an empty or
\* white-space-only text sets the direction to the defaultDirection
\* configured at construction.
C5_BlankTextGivesDefault ==
    (last.op = "setText" /\ BeforeAuto /\ IsBlank(text) /\ defaultDirection # NULL)
      => getDirection = defaultDirection

\* C6: with auto-detect off and no override, setText leaves the direction
\* unchanged and fires no direction-changed.
C6_FrozenDirection ==
    (last.op = "setText" /\ BeforeDegenerate)
      => /\ getDirection = last.before.direction
         /\ DirectionEvents(events) = <<>>

\* C7: with auto-detect on and no override, after setText of a text that is
\* non-empty after trimming, the direction is RTL iff the text contains a
\* character of the RTL ranges.
C7_DetectedDirection ==
    (last.op = "setText" /\ BeforeAuto /\ ~IsBlank(text))
      => (getDirection = "rtl") = (\E i \in 1..Len(text) : IsRTLChar(text[i]))

\* a setText of mixed text (RTL and non-RTL characters) that changed the
\* direction away from the configured default
C7_Witness ==
    /\ last.op = "setText"
    /\ BeforeAuto
    /\ ~IsBlank(text)
    /\ \E i, j \in 1..Len(text) : IsRTLChar(text[i]) /\ ~IsRTLChar(text[j])
    /\ direction # last.before.direction
    /\ defaultDirection = "ltr"

\* C8: right after construction with auto-detect enabled, an empty initial
\* text and defaultDirection d, getDirection() is d.
C8_ConstructedDefault ==
    (last.op = "constructor" /\ autoDetectRTL /\ text = <<>> /\ defaultDirection # NULL)
      => getDirection = defaultDirection

\* C9: toggleDirection() flips the direction, sets the manual override to the
\* new direction and turns auto-detect off.
C9_ToggleFlips ==
    last.op = "toggleDirection"
      => /\ getDirection # last.before.direction
         /\ manualDirection = getDirection
         /\ ~autoDetectRTL

\* toggleDirection() called on an already pinned direction
C9_Witness ==
    /\ last.op = "toggleDirection"
    /\ last.before.manualDirection # NULL
    /\ direction = "ltr"

\* C10: setAutoDetect(true) clears the manual override, turns auto-detect on
\* and recomputes: for a non-blank text the direction is RTL iff the text
\* contains a character of the RTL ranges.
C10_ReenableRecomputes ==
    EnabledAutoDetect
      => /\ manualDirection = NULL
         /\ autoDetectRTL
         /\ ~IsBlank(text)
              => ((getDirection = "rtl") = (\E i \in 1..Len(text) : IsRTLChar(text[i])))

\* setAutoDetect(true) called while an override pinned the direction against
\* the content of a non-blank text
C10_Witness ==
    /\ EnabledAutoDetect
    /\ last.before.manualDirection # NULL
    /\ ~IsBlank(text)
    /\ direction # last.before.direction

\* the text-changed notifications among evs, in order
TextEvents(evs) == SelectSeq(evs, LAMBDA e : e.kind = "text-changed")

\* the last call was insertMarkdown with an action of the enumeration
InsertedKnown ==
    /\ last.op = "insertMarkdown"
    /\ last.args.action \in {"h1", "h2", "h3", "bold", "italic", "strikethrough",
                             "ul", "ol", "quote", "link", "image", "code"}

\* the number of occurrences of the literal lit in s
Count(s, lit) == Cardinality({i \in 1..Len(s) : StartsAt(s, i, lit)})

\* the number of '>' of s that start a line and are followed by a space
QuoteMarkers(s) ==
    Cardinality({i \in 1..Len(s) :
                   /\ StartsAt(s, i, <<62, 32>>)
                   /\ (i = 1 \/ s[i - 1] \in {10, 13, 8232, 8233})})

\* the tags the renderer writes, those of links and images up to the
\* opening quote of the first attribute
Tags ==
    {<<60, 112, 62>>, <<60, 47, 112, 62>>, <<60, 98, 108, 111, 99, 107, 113, 117, 111, 116, 101, 62>>, <<60, 47, 98, 108, 111, 99, 107, 113, 117, 111, 116, 101, 62>>,
     <<60, 97, 32, 104, 114, 101, 102, 61, 34>>, <<60, 47, 97, 62>>, <<60, 105, 109, 103, 32, 115, 114, 99, 61, 34>>,
     <<60, 104, 49, 62>>, <<60, 104, 50, 62>>, <<60, 104, 51, 62>>, <<60, 104, 52, 62>>, <<60, 104, 53, 62>>, <<60, 104, 54, 62>>,
     <<60, 47, 104, 49, 62>>, <<60, 47, 104, 50, 62>>, <<60, 47, 104, 51, 62>>, <<60, 47, 104, 52, 62>>, <<60, 47, 104, 53, 62>>, <<60, 47, 104, 54, 62>>,
     <<60, 115, 116, 114, 111, 110, 103, 62>>, <<60, 47, 115, 116, 114, 111, 110, 103, 62>>, <<60, 101, 109, 62>>, <<60, 47, 101, 109, 62>>, <<60, 104, 114, 62>>,
     <<60, 117, 108, 62>>, <<60, 47, 117, 108, 62>>, <<60, 111, 108, 62>>, <<60, 47, 111, 108, 62>>, <<60, 108, 105, 62>>, <<60, 47, 108, 105, 62>>}

\* every '<' of h opens and every '>' of h closes one of the tags the
\* renderer writes; the '>' of a link or an image follows the closing quote
\* of its last attribute
OnlyTags(h) ==
    \A i \in 1..Len(h) :
      /\ h[i] = 60 => \E tag \in Tags : StartsAt(h, i, tag)
      /\ h[i] = 62 =>
           \E tag \in Tags \cup {<<34, 62>>} : StartsAt(h, i - Len(tag) + 1, tag)

\* C11: clear(), called in any reachable state, leaves the text empty and
\* the manual override cleared, and fires text-changed exactly once, with
\* both arguments equal to the empty string.
C11_ClearEmpties ==
    last.op = "clear"
      => /\ getText = <<>>
         /\ manualDirection = NULL
         /\ Len(TextEvents(events)) = 1
         /\ TextEvents(events)[1].text = <<>>
         /\ TextEvents(events)[1].html = <<>>

\* clear() called on a non-empty text while an override pinned the direction
C11_Witness ==
    /\ last.op = "clear"
    /\ last.before.text # <<>>
    /\ last.before.manualDirection # NULL

\* C12 (as stated): after clear(), getDirection() equals the direction the
\* editor had right after construction.
C12_DirectionReset ==
    last.op = "clear" => getDirection = constructorDirection(variant, defaultDirection)

\* C12 (amended): clear() leaves the direction as it was before the call and
\* fires no direction-changed.
C12_DirectionKept ==
    last.op = "clear"
      => /\ getDirection = last.before.direction
         /\ DirectionEvents(events) = <<>>

\* clear() called after a toggle moved the direction away from the one of the
\* constructor
C12_Witness ==
    /\ last.op = "clear"
    /\ last.before.manualDirection # NULL
    /\ direction # constructorDirection(variant, defaultDirection)

\* C13: in every reachable state getText() is the text most recently handed
\* to the editor (the argument of the last setText, empty after clear, the
\* initial text otherwise) and getHTML() returns the rendering of that text.
C13_HtmlReflectsText ==
    /\ getText = written
    /\ last.op = "getHTML" => ret = parseMarkdown(written)

\* getHTML() called while the editor holds a text of full length whose
\* rendering differs from the rendering of the empty text
C13_Witness ==
    /\ last.op = "getHTML"
    /\ Len(written) = MaxLen
    /\ ret # parseMarkdown(<<>>)

\* C14: insertMarkdown(action, selectedText) leaves the text, the direction,
\* the auto-detect flag and the manual override unchanged and fires neither
\* text-changed nor direction-changed.
C14_InsertIsPure ==
    last.op = "insertMarkdown"
      => /\ getText = last.before.text
         /\ getDirection = last.before.direction
         /\ autoDetectRTL = last.before.autoDetectRTL
         /\ manualDirection = last.before.manualDirection
         /\ events = <<>>

\* insertMarkdown returning a snippet while the editor holds a text and a
\* manual override
C14_Witness ==
    /\ last.op = "insertMarkdown"
    /\ ret.newText # <<>>
    /\ text # <<>>
    /\ manualDirection # NULL

\* C15: insertMarkdown called with an action outside the enumeration, with
\* any selected text, returns an empty snippet and cursor offset 0.
C15_UnknownAction ==
    (last.op = "insertMarkdown" /\ ~InsertedKnown)
      => ret = [newText |-> <<>>, cursorOffset |-> 0]

\* insertMarkdown called with an unknown action and a non-empty selection
C15_Witness ==
    /\ last.op = "insertMarkdown"
    /\ ~InsertedKnown
    /\ last.args.selectedText # <<>>
    /\ ret.cursorOffset = 0

\* C16 (as stated): for every action of the enumeration, link and image
\* included, and every non-empty selected text, cursorOffset equals the
\* length of the returned snippet.
C16_CaretAtEnd ==
    (InsertedKnown /\ last.args.selectedText # <<>>)
      => ret.cursorOffset = Len(ret.newText)

\* C16 (amended): for a non-empty selected text cursorOffset equals the
\* length of the snippet for every action except link and image; for link
\* it is the length minus 4, right after the opening parenthesis of the
\* destination, and for image the length minus 11, right after the closing
\* bracket of the alternative text.
C16_CaretAtEndOrDestination ==
    (InsertedKnown /\ last.args.selectedText # <<>>)
      => /\ last.args.action \notin {"link", "image"}
              => ret.cursorOffset = Len(ret.newText)
         /\ last.args.action = "link"
              => /\ ret.cursorOffset = Len(ret.newText) - 4
                 /\ SubSeq(ret.newText, 1, ret.cursorOffset)
                      = <<91>> \o last.args.selectedText \o <<93, 40>>
         /\ last.args.action = "image"
              => /\ ret.cursorOffset = Len(ret.newText) - 11
                 /\ SubSeq(ret.newText, 1, ret.cursorOffset)
                      = <<33, 91>> \o last.args.selectedText \o <<93>>

\* insertMarkdown('link', selection) with a non-empty selection
C16_Witness ==
    /\ InsertedKnown
    /\ last.args.action = "link"
    /\ last.args.selectedText # <<>>
    /\ ret.cursorOffset < Len(ret.newText)

\* C17: with an empty selection insertMarkdown returns the cursor offsets
\* h1 2, h2 3, h3 4, bold 2, italic 1, strikethrough 2, unordered item 2,
\* ordered item 3, quote 2, link 1, image 2, inline code 1.
C17_EmptySelectionOffsets ==
    (InsertedKnown /\ last.args.selectedText = <<>>)
      => ret.cursorOffset =
           [h1 |-> 2, h2 |-> 3, h3 |-> 4, bold |-> 2, italic |-> 1,
            strikethrough |-> 2, ul |-> 2, ol |-> 3, quote |-> 2, link |-> 1,
            image |-> 2, code |-> 1][last.args.action]

\* insertMarkdown('h3', '') in the variant of src/MarkdownEditor.js, whose
\* snippet is longer than the offset
C17_Witness ==
    /\ InsertedKnown
    /\ last.args.action = "h3"
    /\ last.args.selectedText = <<>>
    /\ variant = "core"
    /\ Len(ret.newText) > ret.cursorOffset

\* C18 (as stated): insertMarkdown('bold', '') returns a snippet of exactly
\* 4 characters, the two ** markers with nothing between them, and
\* cursorOffset 2.
C18_BoldEmptyFour ==
    (InsertedKnown /\ last.args.action = "bold" /\ last.args.selectedText = <<>>)
      => /\ ret.newText = <<42, 42, 42, 42>>
         /\ ret.cursorOffset = 2

\* C18 (amended): insertMarkdown('bold', '') returns cursorOffset 2, which
\* puts the caret right after the opening ** of a snippet that ends with **;
\* the snippet is the 4 characters **** in src/app.js and the 13 characters
\* **bold text** in src/MarkdownEditor.js.
C18_BoldEmptyCaret ==
    (InsertedKnown /\ last.args.action = "bold" /\ last.args.selectedText = <<>>)
      => /\ ret.cursorOffset = 2
         /\ ret.newText = IF variant = "app" THEN <<42, 42, 42, 42>>
                          ELSE <<42, 42>> \o <<98, 111, 108, 100, 32, 116, 101, 120, 116>> \o <<42, 42>>

\* insertMarkdown('bold', '') in the variant of src/MarkdownEditor.js
C18_Witness ==
    /\ InsertedKnown
    /\ last.args.action = "bold"
    /\ last.args.selectedText = <<>>
    /\ variant = "core"
    /\ Len(ret.newText) = 13

\* C19: containsRTL(text) is true iff text holds at least one character of
\* U+0590-U+05FF, U+0600-U+06FF, U+0750-U+077F, U+08A0-U+08FF, U+FB50-U+FDFF
\* or U+FE70-U+FEFF (bounds included), at any position; it is false for the
\* empty string and for all-ASCII text.
C19_DetectsRanges ==
    last.op = "containsRTL"
      => /\ ret = \E i \in 1..Len(text) :
                    \E r \in {<<1424, 1535>>, <<1536, 1791>>, <<1872, 1919>>,
                              <<2208, 2303>>, <<64336, 65023>>, <<65136, 65279>>} :
                      r[1] <= text[i] /\ text[i] <= r[2]
         /\ (\A i \in 1..Len(text) : text[i] < 128) => ret = FALSE

\* containsRTL called on a text whose only character of the ranges is the
\* upper bound of the last range, at the last position
C19_Witness ==
    /\ last.op = "containsRTL"
    /\ Len(text) = MaxDetectLen
    /\ text[Len(text)] = 65279
    /\ \A i \in 1..(Len(text) - 1) : text[i] = 65
    /\ ret = TRUE

\* C20 (as stated): each '&', '<' and '>' of the input appears in the render
\* output escaped exactly once, as &amp;, &lt;, &gt;, also inside or next to
\* a link or an image.
C20_EscapedOnce ==
    last.op = "getHTML"
      => /\ Count(ret, <<38, 97, 109, 112, 59>>) = Count(text, <<38>>)
         /\ Count(ret, <<38, 108, 116, 59>>) = Count(text, <<60>>)
         /\ Count(ret, <<38, 103, 116, 59>>) = Count(text, <<62>>)

\* C20 (amended): each '&', '<' and '>' of the input appears in the render
\* output escaped exactly once and never raw, also inside or next to a link
\* or an image, except a '>' that starts a line and is followed by a space:
\* that one is the blockquote marker and is replaced by the blockquote tags.
C20_EscapedOnceButMarkers ==
    last.op = "getHTML"
      => /\ Count(ret, <<38, 97, 109, 112, 59>>) = Count(text, <<38>>)
         /\ Count(ret, <<38, 108, 116, 59>>) = Count(text, <<60>>)
         /\ Count(ret, <<38, 103, 116, 59>>) = Count(text, <<62>>) - QuoteMarkers(text)
         /\ OnlyTags(ret)

\* the rendering of a link whose text and destination are '<' and '&', with
\* a '>' right before it
C20_Witness ==
    /\ last.op = "getHTML"
    /\ text = <<62, 91, 60, 93, 40, 38, 41>>
    /\ Count(ret, <<38, 103, 116, 59>>) = 1
    /\ Count(ret, <<60, 97, 32, 104, 114, 101, 102, 61, 34>>) = 1

\* the characters the markdown patterns are made of: ! # ( ) * + - . 0-9 > [
\* ] _ ` ~
SyntaxChars == {33, 35, 40, 41, 42, 43, 45, 46, 62, 91, 93, 95, 96, 126} \cup (48..57)

\* t holds no markdown syntax character
IsPlainText(t) == \A i \in 1..Len(t) : t[i] \notin SyntaxChars

\* t with '&', '<' and '>' written as &amp;, &lt; and &gt;
Escaped(t) ==
    LET esc[k \in 0..Len(t)] ==
          IF k = 0 THEN <<>>
          ELSE esc[k - 1] \o (CASE t[k] = 38 -> <<38, 97, 109, 112, 59>>
                                [] t[k] = 60 -> <<38, 108, 116, 59>>
                                [] t[k] = 62 -> <<38, 103, 116, 59>>
                                [] OTHER -> <<t[k]>>)
    IN esc[Len(t)]

\* C21 (as stated): for every text without markdown syntax characters, the
\* empty text and texts with blank lines included, the html is <p>, the
\* escaped text and </p>.
C21_PlainParagraph ==
    (last.op = "getHTML" /\ IsPlainText(text))
      => ret = <<60, 112, 62>> \o Escaped(text) \o <<60, 47, 112, 62>>

\* C21 (amended): for every non-empty text without markdown syntax characters
\* and without a blank line (two consecutive line feeds) the html is <p>, the
\* escaped text and </p>; the empty text renders to the empty string; and
\* no blank line is kept in the html of a text without markdown syntax
\* characters, each one being turned into a paragraph break.
C21_PlainParagraphNoBlank ==
    (last.op = "getHTML" /\ IsPlainText(text))
      => /\ (text # <<>> /\ Count(text, <<10, 10>>) = 0)
              => ret = <<60, 112, 62>> \o Escaped(text) \o <<60, 47, 112, 62>>
         /\ text = <<>> => ret = <<>>
         /\ Count(ret, <<10, 10>>) = 0

\* the rendering of a text of full length that holds an '&' and a line feed
\* and no blank line
C21_Witness ==
    /\ last.op = "getHTML"
    /\ IsPlainText(text)
    /\ Len(text) = MaxPlain
    /\ Count(text, <<38>>) > 0
    /\ Count(text, <<10>>) > 0
    /\ Count(text, <<10, 10>>) = 0
    /\ Count(ret, <<38, 97, 109, 112, 59>>) > 0

\* the elements of ls in order, each followed by sep
Concat(ls, sep) ==
    LET c[k \in 0..Len(ls)] == IF k = 0 THEN <<>> ELSE c[k - 1] \o ls[k] \o sep
    IN c[Len(ls)]

\* runs of unordered-item lines '- a' and '- b' that leave room for a blank
\* line and a plain line
ItemRuns == UNION {[1..n -> {<<45, 32, 97>>, <<45, 32, 98>>}] : n \in 1..(MaxLines - 2)}

\* the list items of a run of unordered-item lines
Items(run) == [k \in 1..Len(run) |-> <<60, 108, 105, 62>> \o SubSeq(run[k], 3, Len(run[k])) \o <<60, 47, 108, 105, 62>>]

\* C22 (as stated): a run of unordered-item lines, a blank line and the
\* line 'c' render to <ul>, the items and </ul> with no other character
\* between these tags, followed by the paragraph of 'c'.
C22_ListThenParagraph ==
    \A run \in ItemRuns :
      (last.op = "getHTML" /\ text = Concat(run, <<10>>) \o <<10, 99>>)
        => ret = <<60, 117, 108, 62>> \o Concat(Items(run), <<>>) \o <<60, 47, 117, 108, 62>> \o <<60, 112, 62, 99, 60, 47, 112, 62>>

\* C22 (amended): a run of unordered-item lines, a blank line and the line
\* 'c' render to <ul>, the items and </ul>, each of these tags followed by
\* one line feed except </ul>, which is followed at once by the paragraph
\* of 'c': the list is closed before the paragraph break.
C22_ListLinesThenParagraph ==
    \A run \in ItemRuns :
      (last.op = "getHTML" /\ text = Concat(run, <<10>>) \o <<10, 99>>)
        => ret = <<60, 117, 108, 62, 10>> \o Concat(Items(run), <<10>>) \o <<60, 47, 117, 108, 62>> \o <<60, 112, 62, 99, 60, 47, 112, 62>>

\* the rendering of the lines '- a', '- b', a blank line and 'c'
C22_Witness ==
    /\ last.op = "getHTML"
    /\ text = <<45, 32, 97, 10, 45, 32, 98, 10, 10, 99>>
    /\ Count(ret, <<60, 108, 105, 62>>) = 2
    /\ Count(ret, <<60, 47, 117, 108, 62, 60, 112, 62, 99, 60, 47, 112, 62>>) = 1

\* C23: for every n in 1..6, the text made of n '#', one space and a plain
\* content x renders to exactly <hn>, the escaped x and </hn>, with no <p>
\* around it and, for n above 1, no <h1>.
C23_HeadingLevel ==
    \A n \in 1..6, x \in Contents :
      (last.op = "getHTML" /\ text = [k \in 1..n |-> 35] \o <<32>> \o x)
        => /\ ret = <<60, 104, 48 + n, 62>> \o Escaped(x) \o <<60, 47, 104, 48 + n, 62>>
           /\ Count(ret, <<60, 112, 62>>) = 0
           /\ n > 1 => Count(ret, <<60, 104, 49, 62>>) = 0

\* the rendering of six '#', a space and a content of full length that
\* holds an '&'
C23_Witness ==
    /\ last.op = "getHTML"
    /\ StartsAt(text, 1, <<35, 35, 35, 35, 35, 35, 32>>)
    /\ Len(text) = 7 + MaxContent
    /\ Count(text, <<38>>) > 0
    /\ StartsAt(ret, 1, <<60, 104, 54, 62>>)

\* the number of lines of t that are exactly rule
RuleLineCount(t, rule) ==
    Cardinality({i \in 1..Len(t) :
                   /\ StartsAt(t, i, rule)
                   /\ (i = 1 \/ t[i - 1] = 10)
                   /\ (i + Len(rule) > Len(t) \/ t[i + Len(rule)] = 10)})

\* C24 (as stated): every line of the text that is exactly '---' and every
\* line that is exactly '***' is rendered as <hr>, whatever the bold and
\* italic statements did to the line before.
C24_RuleLinesRendered ==
    (last.op = "getHTML" /\ text \in Ruled)
      => Count(ret, <<60, 104, 114, 62>>)
           = RuleLineCount(text, <<45, 45, 45>>) + RuleLineCount(text, <<42, 42, 42>>)

\* C25 (as stated): for all values x and y the patterns of the images and
\* links accept, those with a '_' included, [x](y) is rendered as the link
\* <a href="y" target="_blank">x</a> and ![x](y) as the image
\* <img src="y" alt="x">, an image is never rendered as a link, and no
\* fragment of a placeholder is left in the html.
C25_LinksAndImagesRestored ==
    \A x \in Values, y \in Values :
      last.op = "getHTML"
        => /\ text = <<91>> \o x \o <<93, 40>> \o y \o <<41>>
                => ret = <<60, 112, 62, 60, 97, 32, 104, 114, 101, 102, 61, 34>> \o Escaped(y) \o <<34, 32, 116, 97, 114, 103, 101, 116, 61, 34, 95, 98, 108, 97, 110, 107, 34, 62>>
                           \o Escaped(x) \o <<60, 47, 97, 62, 60, 47, 112, 62>>
           /\ text = <<33, 91>> \o x \o <<93, 40>> \o y \o <<41>>
                => /\ ret = <<60, 112, 62, 60, 105, 109, 103, 32, 115, 114, 99, 61, 34>> \o Escaped(y) \o <<34, 32, 97, 108, 116, 61, 34>>
                              \o Escaped(x) \o <<34, 62, 60, 47, 112, 62>>
                   /\ Count(ret, <<60, 97, 32>>) = 0
           /\ text \in Underscored
                => /\ Count(ret, <<76, 73, 78, 75>>) = 0
                   /\ Count(ret, <<73, 77, 65, 71, 69>>) = 0

\* the indices of t at which a line starts, the one of an empty last line
\* included
LineStarts(t) == {i \in 1..(Len(t) + 1) : i = 1 \/ t[i - 1] = 10}

\* the line starts of the unordered items, of the ordered items and of the
\* other lines of a text of Listed
UnorderedAt(t) == {i \in LineStarts(t) : StartsAt(t, i, <<45, 32>>)}
OrderedAt(t) == {i \in LineStarts(t) : StartsAt(t, i, <<49, 46, 32>>)}
OthersAt(t) == LineStarts(t) \ (UnorderedAt(t) \cup OrderedAt(t))

\* the items of S that open a list: those with no item of S before them, or
\* with a line of others between them and the item of S before them
Openers(S, others) ==
    {i \in S : \A h \in S : h < i => \E j \in others : h < j /\ j < i}

\* the number of occurrences of lit in s that start before index i
CountBefore(s, lit, i) == Cardinality({k \in 1..(i - 1) : StartsAt(s, k, lit)})

\* C26: in the html of every text of Listed, every list that was opened is
\* closed (as many </ul> as <ul>, as many </ol> as <ol>, also for a list
\* still open at the end of the input); a list is opened by each item with
\* no item of its kind since the last line that is no item, so every such
\* line closed the open lists; and every line 'c' stands after the closing
\* tags of all the lists opened before it.
C26_ListsClosed ==
    (last.op = "getHTML" /\ text \in Listed)
      => /\ Count(ret, <<60, 117, 108, 62>>) = Count(ret, <<60, 47, 117, 108, 62>>)
         /\ Count(ret, <<60, 111, 108, 62>>) = Count(ret, <<60, 47, 111, 108, 62>>)
         /\ Count(ret, <<60, 117, 108, 62>>) = Cardinality(Openers(UnorderedAt(text), OthersAt(text)))
         /\ Count(ret, <<60, 111, 108, 62>>) = Cardinality(Openers(OrderedAt(text), OthersAt(text)))
         /\ \A i \in 1..Len(ret) :
              ret[i] = 99
                => /\ CountBefore(ret, <<60, 117, 108, 62>>, i) = CountBefore(ret, <<60, 47, 117, 108, 62>>, i)
                   /\ CountBefore(ret, <<60, 111, 108, 62>>, i) = CountBefore(ret, <<60, 47, 111, 108, 62>>, i)

\* the rendering of '- a', '1. b', 'c', '- a': the line 'c' closes the two
\* lists open before it, the end of the input closes the list open after it
C26_Witness ==
    /\ last.op = "getHTML"
    /\ text = <<45, 32, 97, 10, 49, 46, 32, 98, 10, 99, 10, 45, 32, 97>>
    /\ Count(ret, <<60, 47, 117, 108, 62>>) = 2
    /\ Count(ret, <<60, 47, 111, 108, 62>>) = 1

\* between every closing tag and the opening tag it closes (the last one
\* before it), h opens as many lists of the kind of inner as it closes
NestedIn(h, open, close, innerOpen, innerClose) ==
    \A i, j \in 1..Len(h) :
      (/\ i < j
       /\ StartsAt(h, i, open)
       /\ StartsAt(h, j, close)
       /\ CountBefore(h, open, j) = CountBefore(h, open, i) + 1)
        => CountBefore(h, innerOpen, j) - CountBefore(h, innerOpen, i)
             = CountBefore(h, innerClose, j) - CountBefore(h, innerClose, i)

\* C29 (as stated): in the html of every text of Listed the list tags are
\* well nested: a list opened inside another list is closed before that
\* list, also when unordered and ordered items follow each other with no
\* other line between them.
C29_ListsWellNested ==
    (last.op = "getHTML" /\ text \in Listed)
      => /\ NestedIn(ret, <<60, 117, 108, 62>>, <<60, 47, 117, 108, 62>>, <<60, 111, 108, 62>>, <<60, 47, 111, 108, 62>>)
         /\ NestedIn(ret, <<60, 111, 108, 62>>, <<60, 47, 111, 108, 62>>, <<60, 117, 108, 62>>, <<60, 47, 117, 108, 62>>)

\* C27: in no reachable state are a manual override and auto-detect active
\* together.
C27_NoOverrideWithAuto == manualDirection # NULL => ~autoDetectRTL

\* setAutoDetect(false) called while an override pins the direction: the
\* override stays
C27_Witness ==
    /\ last.op = "setAutoDetectRTL"
    /\ ~last.enabled
    /\ last.before.manualDirection # NULL
    /\ manualDirection # NULL

\* C28 (as stated): in every reachable state with auto-detect on, no manual
\* override and a non-blank text, the state right after construction
\* included, getDirection() is RTL iff the text holds a character of the
\* RTL ranges.
C28_AutoFollowsText ==
    (autoDetectRTL /\ manualDirection = NULL /\ ~IsBlank(text))
      => (getDirection = "rtl") = (\E i \in 1..Len(text) : IsRTLChar(text[i]))

\* C30: toggleDirection() and setAutoDetect(enabled) leave the text as it
\* was and fire no text-changed; setText and clear fire text-changed exactly
\* once; clear fires no direction-changed.
C30_TextChangedFrame ==
    /\ last.op \in {"toggleDirection", "setAutoDetectRTL"}
         => /\ getText = last.before.text
            /\ TextEvents(events) = <<>>
    /\ last.op \in {"setText", "clear"} => Len(TextEvents(events)) = 1
    /\ last.op = "clear" => DirectionEvents(events) = <<>>

\* setAutoDetect(true) that changed the direction of a text of full length
C30_Witness ==
    /\ last.op = "setAutoDetectRTL"
    /\ Len(text) = MaxLen
    /\ DirectionEvents(events) # <<>>

TypeOK ==
    /\ variant \in Variants
    /\ text \in Texts
    /\ direction \in Directions
    /\ autoDetectRTL \in BOOLEAN
    /\ manualDirection \in Directions \cup {NULL}
    /\ pinned \in Directions \cup {NULL}
====
